---------------------------- MODULE Spec2Model ----------------------------
(***************************************************************************)
(* The bridge correlation engine of the WhatsApp-Discord bridge.           *)
(*                                                                         *)
(* The repository holds three variants of the engine:                      *)
(*   "batchStrip"  src/server.js:199-394    batch relay, trigger stripped  *)
(*   "immediate"   src/server.js:882-1077   immediate relay, trigger kept  *)
(*   "batchKeep"   src/unnamed/part_000:253-447  batch relay, trigger kept *)
(* The variant is fixed at start-up.  Every async function is cut at its   *)
(* await points: one action runs from one await (or the event) to the next.*)
(* Time is the value of Date.now(), counted in clock ticks.                *)
(***************************************************************************)
EXTENDS Integers, Sequences, FiniteSets, TLC

\* ------------------------------------------------------------------ bounds
MaxA == 2            \* platform-A events in one run
MaxB == 2            \* platform-B events in one run
MaxEvents == 3       \* events of both platforms, and media payloads, in one run
MaxTime == 3         \* the clock stops here
MaxRnd == 2          \* distinct values of the random id suffix
MaxBody == 3         \* longest body text
MaxAtt == 1          \* most attachments of one platform-B event
MaxInit == 3         \* calls of initializeWhatsApp, and of initializeDiscord
MaxPending == 1      \* pending restart timers, reconnect timers, retry timers
MaxTimeout == 3      \* the largest configured CONFIG.messageTimeout, in clock ticks

\* -------------------------------------------------------------- constants
\* CONFIG.messageTimeout in clock ticks (MESSAGE_TIMEOUT_MINUTES is configurable)
messageTimeout == 1
\* the sweeper's 60 * 60 * 1000 ms, period and retention ceiling, in clock ticks
HourTicks == 2

Variants == {"batchStrip", "immediate", "batchKeep"}

\* only one of the two collecting variants collects
BatchOnlyKeep(v) == v = "batchKeep"

\* every variant collects
BatchAlways(v) == v \in Variants

Batch(v) == v \in {"batchStrip", "batchKeep"}

AEvents == 1..MaxA
BEvents == 1..MaxB
NoRec == 0           \* no record (undefined)

VARIABLES
  variant,         \* which variant of the engine runs
  CONFIG,          \* the configuration read from the environment at start-up
  now,             \* Date.now()
  activeMessages,  \* the Map, as its entries [key, rec] in iteration order
  recs,            \* the record objects, one per platform-A event that made one
  wa,              \* handleWhatsAppMessage invocations, per platform-A event
  dc,              \* handleDiscordMessage invocations, per platform-B event
  expiry,          \* the window-expiry timer and callback of each record
  waOut,           \* chat.sendMessage calls, in call order
  errorLogged,     \* whether console.error has been called
  inbound,         \* the platform-A message a run of the admission filter is given
  uploads,         \* the paths of the scratch files in uploadsDir
  isWhatsAppReady, \* the ready flag of the platform-A client
  isDiscordReady,  \* the ready flag of the platform-B client
  lastPing,        \* Date.now() of the last ping
  timers,          \* the pending restart, reconnect and retry timers
  clients,         \* the platform-A client instances with a message listener that
                   \* have been created and have neither disconnected nor failed
  initialized,     \* the calls of initializeWhatsApp and of initializeDiscord so far
  proc,            \* the process: an uncaught exception was raised, it has exited
  res              \* the route of the last HTTP request answered

\* the state of the server around the engine
server ==
  <<isWhatsAppReady, isDiscordReady, lastPing, timers, clients, initialized, proc, res>>

vars == <<variant, CONFIG, now, activeMessages, recs, wa, dc, expiry, waOut, errorLogged,
          inbound, uploads, server>>

\* ------------------------------------------------------------ body texts
Chars == {" ", ".", "a"}
triggerChar == "."
Bodies == UNION {[1..n -> Chars] : n \in 0..MaxBody}
Froms == {"status@broadcast", "user@c.us"}

RECURSIVE TrimStart(_)
TrimStart(s) == IF Len(s) > 0 /\ Head(s) = " " THEN TrimStart(Tail(s)) ELSE s

RECURSIVE TrimEnd(_)
TrimEnd(s) ==
  IF Len(s) > 0 /\ s[Len(s)] = " " THEN TrimEnd(SubSeq(s, 1, Len(s) - 1)) ELSE s

\* String.prototype.trim
Trim(s) == TrimEnd(TrimStart(s))

\* body.startsWith(CONFIG.triggerChar)
StartsWithTrigger(s) == Len(s) > 0 /\ s[1] = triggerChar

\* the content each variant forwards: substring(1).trim() or trim()
Content(v, body) ==
  IF v = "batchStrip" THEN Trim(SubSeq(body, 2, Len(body))) ELSE Trim(body)

\* the filter without its test of the origin
AdmittedAnyOrigin(v, body, from) ==
  StartsWithTrigger(body) /\ Content(v, body) # <<>>

\* the three early returns of handleWhatsAppMessage
Admitted(v, body, from) ==
  /\ StartsWithTrigger(body)
  /\ from # "status@broadcast"
  /\ Content(v, body) # <<>>

\* ------------------------------------------------------------- the Map
\* the position of key k in the Map's entries, 0 when absent
MapIndex(m, k) ==
  IF \E i \in 1..Len(m) : m[i].key = k
    THEN CHOOSE i \in 1..Len(m) : m[i].key = k
    ELSE 0

\* Map.prototype.has
MapHas(m, k) == MapIndex(m, k) # 0

\* Map.prototype.get, NoRec for undefined
MapGet(m, k) == IF MapHas(m, k) THEN m[MapIndex(m, k)].rec ELSE NoRec

\* Map.prototype.set: a new key goes last, an old key keeps its place
MapSet(m, k, r) ==
  IF MapHas(m, k)
    THEN [m EXCEPT ![MapIndex(m, k)] = [key |-> k, rec |-> r]]
    ELSE Append(m, [key |-> k, rec |-> r])

\* Map.prototype.delete
MapDelete(m, k) ==
  LET i == MapIndex(m, k)
  IN IF i = 0 THEN m ELSE SubSeq(m, 1, i - 1) \o SubSeq(m, i + 1, Len(m))

\* the record objects the Map holds
Stored(m) == {m[i].rec : i \in 1..Len(m)}

\* `${Date.now()}_${Math.random().toString(36).substr(2, 9)}`
BridgeId(t, rnd) == <<t, rnd>>

\* attachment.name of a platform-B attachment
Names == {"p.png", "n.TXT"}

\* String.prototype.toLowerCase
LowerCase(name) == IF name = "n.TXT" THEN "n.txt" ELSE name

\* attachment.name.toLowerCase().endsWith('.txt')
IsTxt(name) == LowerCase(name) \in {"n.txt"}

\* path.join(uploadsDir, `${bridgeId}_${attachment.name}`)
Path(k, name) == <<k[1], k[2], name>>

\* the path of inbound media, media.filename being "media":
\* `${bridgeId}_media` in batchStrip, `${Date.now()}_media` in the others
MediaPath(v, k, t) == IF v = "batchStrip" THEN Path(k, "media") ELSE <<t, 0, "media">>

\* a platform-A event that has not arrived: discordChannel.send() not called,
\* no scratch file written, no unlink timer pending
NewEvent == [pc |-> "new", sent |-> FALSE, media |-> FALSE, file |-> <<>>,
             unlink |-> FALSE]

\* chat.id._serialized of the conversation message.getChat() resolves: the
\* direct conversation with the sender, or a group the sender wrote to
Chats == {"user@c.us", "group@g.us"}

\* chat.isGroup
IsGroup(chat) == chat = "group@g.us"

\* whatsappChatId of the record: chat.id._serialized in the immediate variant,
\* message.from in the batch variants
ChatId(v, from, chat) == IF v = "immediate" THEN chat ELSE from

\* the message of a run that draws its messages at arrival: every message of
\* such a run comes from the direct conversation with user@c.us
NoMessage == [body |-> <<>>, from |-> "user@c.us", chat |-> "user@c.us"]

\* a platform-B event that has not arrived; a timer that is not set
NewReply == [pc |-> "new", channel |-> "", target |-> NoRec, text |-> FALSE,
             natt |-> 0, k |-> 0,
             got |-> <<>>, passed |-> 0, live |-> 0, names |-> <<>>, late |-> FALSE, own |-> FALSE]
NewExpiry == [pc |-> "none", due |-> 0, obj |-> NoRec, i |-> 0, j |-> 0]

\* ------------------------------------------------------------------ Init
InitEngine ==
  /\ variant \in Variants
  /\ now = 0
  /\ activeMessages = <<>>
  /\ recs = [e \in AEvents |-> [made |-> FALSE, key |-> <<0, 0>>, timestamp |-> 0,
                                whatsappChatId |-> "", responses |-> <<>>]]
  /\ wa = [e \in AEvents |-> NewEvent]
  /\ dc = [m \in BEvents |-> NewReply]
  /\ expiry = [e \in AEvents |-> NewExpiry]
  /\ waOut = <<>>
  /\ errorLogged = FALSE
  /\ uploads = {}

\* the server after start-up: initializeDiscord() and initializeWhatsApp() have
\* been called once; `ready` tells whether both clients have reported ready
InitServer(ready) ==
  /\ isWhatsAppReady = ready
  /\ isDiscordReady = ready
  /\ lastPing = 0
  /\ timers = [restart |-> 0, reconnect |-> 0, retry |-> 0]
  /\ clients = 1
  /\ initialized = [whatsapp |-> 1, discord |-> 1]
  /\ proc = [uncaught |-> FALSE, exited |-> FALSE]
  /\ res = ""

\* MESSAGE_TIMEOUT_MINUTES is not set: the default
DefaultConfig == [messageTimeout |-> messageTimeout]

\* the engine once both clients are ready
Init == InitEngine /\ CONFIG = DefaultConfig /\ inbound = NoMessage /\ InitServer(TRUE)

\* ------------------------------------------- handleWhatsAppMessage (A -> B)
\* Before the record is stored the handler reads and writes nothing shared, so
\* the event's arrival, the admission filter and the awaits of getChat() and
\* getContact() are one step.  After channels.fetch() the handler touches
\* nothing shared until it calls send(), so the awaits of fetch() and of
\* downloadMedia() are one step.

\* events so far, of both platforms
Arrived == Cardinality({e \in AEvents : wa[e].pc # "new"})
           + Cardinality({m \in BEvents : dc[m].pc # "new"})

\* events so far and the media payloads they brought
Load == Arrived + Cardinality({e \in AEvents : wa[e].media})

\* the next platform-A event is the first that has not arrived
NextA(e) ==
  /\ wa[e].pc = "new"
  /\ \A d \in AEvents : d < e => wa[d].pc # "new"
  /\ Load < MaxEvents

\* the decisions the filter of each variant takes on the messages of the model
Decisions ==
  [v \in Variants |-> {Admitted(v, body, from) : body \in Bodies, from \in Froms}]

\* an event given to handleWhatsAppMessage that fails the admission filter:
\* one of the three early returns
WaIgnoredOn(e, body, from) ==
  /\ NextA(e)
  /\ ~Admitted(variant, body, from)
  /\ wa' = [wa EXCEPT ![e].pc = "ignored"]
  /\ UNCHANGED <<server, inbound, uploads, variant, CONFIG, now, activeMessages, recs, dc, expiry, waOut, errorLogged>>

\* the same for some message of the model
WaIgnored(e) ==
  /\ NextA(e)
  /\ FALSE \in Decisions[variant]
  /\ wa' = [wa EXCEPT ![e].pc = "ignored"]
  /\ UNCHANGED <<server, inbound, uploads, variant, CONFIG, now, activeMessages, recs, dc, expiry, waOut, errorLogged>>

\* an admitted event whose getChat() or getContact() rejects: the listener's
\* catch logs it
GetChatThrows(e) ==
  /\ wa' = [wa EXCEPT ![e].pc = "threw"]
  /\ UNCHANGED <<server, inbound, uploads, variant, CONFIG, now, activeMessages, recs, dc, expiry, waOut>>
  /\ errorLogged' = TRUE

WaGetChatThrowsOn(e, body, from) ==
  NextA(e) /\ Admitted(variant, body, from) /\ GetChatThrows(e)

WaGetChatThrows(e) ==
  NextA(e) /\ TRUE \in Decisions[variant] /\ GetChatThrows(e)

\* the record stored under a second key as well
InsertRecordTwice(m, k, e) == MapSet(MapSet(m, k, e), <<k[1], 0>>, e)

\* activeMessages.set(bridgeId, {..., timestamp: Date.now(), ...})
InsertRecord(m, k, e) == MapSet(m, k, e)

\* the suffixes Math.random() can yield at time t.  Ids are only compared with
\* each other, so the suffixes that make a new id are all alike and the least
\* of them stands for them; the others repeat an id made before
Suffixes(t) ==
  LET usedIds == {recs[d].key : d \in {x \in AEvents : recs[x].made}}
      fresh == {r \in 1..MaxRnd : BridgeId(t, r) \notin usedIds}
  IN {r \in 1..MaxRnd : r \notin fresh \/ \A q \in fresh : r <= q}

\* an admitted event: the record is made and stored, up to
\* `await discordClient.channels.fetch(...)`
StoreRecord(e, from, chat) ==
  /\ \E rnd \in Suffixes(now) :
       LET bridgeId == BridgeId(now, rnd)
       IN /\ recs' = [recs EXCEPT ![e] = [made |-> TRUE, key |-> bridgeId,
                                          timestamp |-> now,
                                          whatsappChatId |-> ChatId(variant, from, chat),
                                          responses |-> <<>>]]
          /\ activeMessages' = InsertRecord(activeMessages, bridgeId, e)
          /\ wa' = [wa EXCEPT ![e].pc = "fetch"]
  /\ UNCHANGED <<server, inbound, uploads, variant, CONFIG, now, dc, expiry, waOut, errorLogged>>

handleWhatsAppMessageOn(e, body, from, chat) ==
  NextA(e) /\ Admitted(variant, body, from) /\ StoreRecord(e, from, chat)

handleWhatsAppMessage(e) ==
  /\ NextA(e)
  /\ TRUE \in Decisions[variant]
  /\ StoreRecord(e, NoMessage.from, NoMessage.chat)

\* the catch block: activeMessages.delete(bridgeId)
Rollback(m, k) == MapDelete(m, k)

\* a timer that is due at once
ScheduleExpiryAtOnce(x, e, t) ==
  [x EXCEPT ![e] = [@ EXCEPT !.pc = "armed", !.due = t]]

\* setTimeout(..., CONFIG.messageTimeout) for the record's expiry
ScheduleExpiry(x, e, t) ==
  [x EXCEPT ![e] = [@ EXCEPT !.pc = "armed", !.due = t + CONFIG.messageTimeout]]

\* channels.fetch(), downloadMedia() or writeFileSync throws: the catch block
WaFetchThrows(e) ==
  /\ wa[e].pc = "fetch"
  /\ activeMessages' = Rollback(activeMessages, recs[e].key)
  /\ wa' = [wa EXCEPT ![e].pc = "rolledback"]
  /\ UNCHANGED <<server, inbound, uploads, variant, CONFIG, now, recs, dc, expiry, waOut>>
  /\ errorLogged' = TRUE

\* what `if (!discordChannel) return` leaves of the Map
NoChannelReturn(m, k) == m

\* channels.fetch() yields no channel: `return` inside the try block
WaFetchNoChannel(e) ==
  /\ wa[e].pc = "fetch"
  /\ activeMessages' = NoChannelReturn(activeMessages, recs[e].key)
  /\ wa' = [wa EXCEPT ![e].pc = "nochannel"]
  /\ UNCHANGED <<server, inbound, uploads, variant, CONFIG, now, recs, dc, expiry, waOut>>
  /\ errorLogged' = TRUE

\* the channel is there: send() is called and awaited, with the text only, or
\* (the event has media) with the scratch file downloadMedia() was written to
WaFetchOk(e) ==
  /\ wa[e].pc = "fetch"
  /\ \E hasMedia \in {h \in BOOLEAN : h => Load < MaxEvents} :
       LET filePath == IF hasMedia THEN MediaPath(variant, recs[e].key, now) ELSE <<>>
       IN /\ wa' = [wa EXCEPT ![e] = [@ EXCEPT !.pc = "send", !.sent = TRUE,
                                               !.media = hasMedia, !.file = filePath]]
          /\ uploads' = IF hasMedia THEN uploads \cup {filePath} ELSE uploads
  /\ UNCHANGED <<server, inbound, variant, CONFIG, now, activeMessages, recs, dc, expiry, waOut, errorLogged>>

\* the event has media and downloadMedia() yields nothing: `if (media)` is
\* skipped, nothing is sent and the expiry timer is set
WaDownloadNoMedia(e) ==
  /\ wa[e].pc = "fetch"
  /\ wa' = [wa EXCEPT ![e].pc = "nomedia"]
  /\ expiry' = ScheduleExpiry(expiry, e, now)
  /\ UNCHANGED <<server, inbound, uploads, variant, CONFIG, now, activeMessages, recs, dc, waOut, errorLogged>>

\* discordChannel.send() resolves: the 5000 ms unlink timer of the scratch
\* file is set when there is one, and the expiry timer is set
WaSendOk(e) ==
  /\ wa[e].pc = "send"
  /\ wa' = [wa EXCEPT ![e] = [@ EXCEPT !.pc = "forwarded",
                                      !.unlink = (wa[e].file # <<>>)]]
  /\ expiry' = ScheduleExpiry(expiry, e, now)
  /\ UNCHANGED <<server, inbound, uploads, variant, CONFIG, now, activeMessages, recs, dc, waOut, errorLogged>>

\* discordChannel.send() throws: the catch block
WaSendThrows(e) ==
  /\ wa[e].pc = "send"
  /\ activeMessages' = Rollback(activeMessages, recs[e].key)
  /\ wa' = [wa EXCEPT ![e].pc = "rolledback"]
  /\ UNCHANGED <<server, inbound, uploads, variant, CONFIG, now, recs, dc, expiry, waOut>>
  /\ errorLogged' = TRUE

\* the 5000 ms timer fires (5000 ms is less than one tick of the clock):
\* `if (fs.existsSync(filePath)) fs.unlinkSync(filePath)`
WaUnlinkMedia(e) ==
  /\ wa[e].unlink
  /\ uploads' = uploads \ {wa[e].file}
  /\ wa' = [wa EXCEPT ![e] = [@ EXCEPT !.unlink = FALSE, !.file = <<>>]]
  /\ UNCHANGED <<server, inbound, variant, CONFIG, now, activeMessages, recs, dc, expiry, waOut, errorLogged>>

\* handleWhatsAppMessage has returned (or thrown into the listener's catch)
WaReturned(e) ==
  wa[e].pc \in {"ignored", "threw", "nochannel", "rolledback", "nomedia", "forwarded"}

\* ------------------------------------------- handleDiscordMessage (B -> A)
Channels == {"bridge", "other"}
Authors == {"user", "bot", "self"}

\* the early returns without the test of the channel
PassesAnyChannel(v, channel, author) ==
  CASE v = "batchStrip" -> author \notin {"bot", "self"}
    [] v = "immediate" -> author # "self"
    [] v = "batchKeep" -> TRUE

\* the early returns of handleDiscordMessage: batchStrip skips every bot and then
\* other channels, immediate skips other channels and the bridge's own messages,
\* batchKeep skips other channels only
PassesFilter(v, channel, author) ==
  CASE v = "batchStrip" -> author \notin {"bot", "self"} /\ channel = "bridge"
    [] v = "immediate" -> channel = "bridge" /\ author # "self"
    [] v = "batchKeep" -> channel = "bridge"

\* the window test one tick too generous
InWindowLate(t, timestamp) == t - timestamp <= messageTimeout + 1

\* the window test with < for <=
InWindowStrict(t, timestamp) == t - timestamp < messageTimeout

\* timeDiff <= CONFIG.messageTimeout, with timeDiff = Date.now() - timestamp
InWindow(t, timestamp) == t - timestamp <= CONFIG.messageTimeout

\* the Map positions whose record is within its window at time t
ActiveAt(m, t) == {i \in 1..Len(m) : InWindow(t, recs[m[i].rec].timestamp)}

\* the loop without its break: the last matching entry wins
LoopStopLast(S) == CHOOSE i \in S : \A j \in S : i >= j

\* the position the for-of loop over activeMessages.entries() stops (breaks) at
LoopStop(S) == CHOOSE i \in S : \A j \in S : i <= j

\* the record the loop attributes a reply received at time t to, NoRec if none
FirstActive(m, t) ==
  IF ActiveAt(m, t) = {} THEN NoRec ELSE m[LoopStop(ActiveAt(m, t))].rec

\* Of each platform-B event the model keeps, beside the handler's locals, how
\* many entries the loop passed over before it stopped (passed), how many
\* records were within their window when it ran (live), and whether the
\* attachment being sent was sent after the record had lapsed (late).

\* a chat.sendMessage call: to the chat of record `chat`, for reply `reply`
Item(chat, reply, kind) == [chat |-> chat, reply |-> reply, kind |-> kind, name |-> ""]

\* a chat.sendMessage call for the attachment `name`: its content as a text
\* ("txt"), the file as media ("media"), or the failure notice ("fail")
FileItem(chat, reply, kind, name) ==
  [chat |-> chat, reply |-> reply, kind |-> kind, name |-> name]

\* how the immediate relay sends an attachment
RelayKind(name) == IF IsTxt(name) THEN "txt" ELSE "media"

\* how the flush sends an attachment: batchStrip has no .txt branch
FlushKind(v, name) == IF v = "batchKeep" /\ IsTxt(name) THEN "txt" ELSE "media"

\* the next platform-B event is the first that has not arrived
NextB(m) ==
  /\ dc[m].pc = "new"
  /\ \A d \in BEvents : d < m => dc[d].pc # "new"
  /\ Load < MaxEvents

\* an event of another channel, or of a skipped author: an early return
DcSkipped(m) ==
  /\ NextB(m)
  /\ \E channel \in Channels :
       /\ \E author \in Authors : ~PassesFilter(variant, channel, author)
       /\ dc' = [dc EXCEPT ![m] = [@ EXCEPT !.pc = "skipped", !.channel = channel]]
  /\ UNCHANGED <<server, inbound, uploads, variant, CONFIG, now, activeMessages, recs, wa, expiry, waOut, errorLogged>>

\* a bridge-channel event that finds no record within its window
DcNoMatch(m) ==
  /\ NextB(m)
  /\ FirstActive(activeMessages, now) = NoRec
  /\ \E channel \in Channels :
       /\ \E author \in Authors : PassesFilter(variant, channel, author)
       /\ dc' = [dc EXCEPT ![m] = [@ EXCEPT !.pc = "nomatch", !.channel = channel,
                                            !.passed = Len(activeMessages)]]
  /\ UNCHANGED <<server, inbound, uploads, variant, CONFIG, now, activeMessages, recs, wa, expiry, waOut, errorLogged>>

\* the messageCreate event of a post the bridge itself made in the bridge
\* channel: there is one per discordChannel.send, its content is the forwarded
\* text and it has a file exactly if the forward had one
OwnPost(text, natt) ==
  \E e \in AEvents : wa[e].sent /\ text /\ (natt > 0 <=> wa[e].media)

\* bridgeData.responses.push(response)
PushResponse(rs, r, m, got) ==
  [rs EXCEPT ![r].responses = Append(@, [reply |-> m, atts |-> got])]

\* a bridge-channel event that finds a record: up to the first await.
\* immediate: the text is sent, else the first attachment is fetched;
\* batch: the first attachment is fetched, else the entry is pushed
handleDiscordMessage(m) ==
  /\ NextB(m)
  /\ FirstActive(activeMessages, now) # NoRec
  /\ \E channel \in Channels, own \in BOOLEAN,
        text \in BOOLEAN, natt \in 0..MaxAtt : \E names \in [1..natt -> Names] :
       /\ \E author \in Authors : /\ own <=> author = "self"
                                  /\ PassesFilter(variant, channel, author)
       /\ own => OwnPost(text, natt)
       /\ LET
              r == FirstActive(activeMessages, now)
              d == [dc[m] EXCEPT !.channel = channel, !.own = own,
                                 !.target = r, !.text = text, !.natt = natt,
                                 !.names = names,
                                 !.passed = LoopStop(ActiveAt(activeMessages, now)) - 1,
                                 !.live = Cardinality(ActiveAt(activeMessages, now))]
          IN IF Batch(variant)
               THEN /\ waOut' = waOut
                    /\ IF natt > 0
                         THEN /\ dc' = [dc EXCEPT ![m] = [d EXCEPT !.pc = "download", !.k = 1]]
                              /\ recs' = recs
                         ELSE /\ dc' = [dc EXCEPT ![m] = [d EXCEPT !.pc = "done", !.names = <<>>,
                                                                     !.passed = 0, !.live = 0]]
                              /\ recs' = PushResponse(recs, r, m, <<>>)
               ELSE /\ recs' = recs
                    /\ IF text
                         THEN /\ dc' = [dc EXCEPT ![m] = [d EXCEPT !.pc = "sendText"]]
                              /\ waOut' = Append(waOut, Item(r, m, "text"))
                         ELSE /\ waOut' = waOut
                              /\ dc' = [dc EXCEPT ![m] =
                                          IF natt > 0 THEN [d EXCEPT !.pc = "download", !.k = 1]
                                                      ELSE [d EXCEPT !.pc = "done", !.names = <<>>,
                                                                     !.passed = 0, !.live = 0]]
  /\ UNCHANGED <<server, inbound, uploads, variant, CONFIG, now, activeMessages, wa, expiry, errorLogged>>

\* an attachment loop that goes on only while the record is stored
NextAttachmentIfStored(d) ==
  IF d.k < d.natt /\ MapHas(activeMessages, recs[d.target].key)
    THEN [d EXCEPT !.pc = "download", !.k = d.k + 1]
    ELSE [d EXCEPT !.pc = "done", !.k = 0, !.got = <<>>, !.names = <<>>,
                   !.passed = 0, !.live = 0, !.late = FALSE]

\* the attachment loop after attachment d.k: the next download, or the end
NextAttachment(d) ==
  IF d.k < d.natt THEN [d EXCEPT !.pc = "download", !.k = d.k + 1]
                  ELSE [d EXCEPT !.pc = "done", !.k = 0, !.got = <<>>, !.names = <<>>,
                                 !.passed = 0, !.live = 0, !.late = FALSE]

\* the scratch file of the attachment handleDiscordMessage is at
ScratchPath(d) == Path(recs[d.target].key, d.names[d.k])

\* immediate: the text sendMessage resolves
DcSendTextOk(m) ==
  /\ dc[m].pc = "sendText"
  /\ dc' = [dc EXCEPT ![m] = NextAttachment(@)]
  /\ UNCHANGED <<server, inbound, uploads, variant, CONFIG, now, activeMessages, recs, wa, expiry, waOut, errorLogged>>

\* immediate: the text sendMessage throws: the outer catch, the attachments
\* are skipped
DcSendTextThrows(m) ==
  /\ dc[m].pc = "sendText"
  /\ dc' = [dc EXCEPT ![m] = [@ EXCEPT !.pc = "done", !.names = <<>>,
                                       !.passed = 0, !.live = 0]]
  /\ UNCHANGED <<server, inbound, uploads, variant, CONFIG, now, activeMessages, recs, wa, expiry, waOut>>
  /\ errorLogged' = TRUE

\* record r is out of activeMessages, or its window is over
Lapsed(r) == ~MapHas(activeMessages, recs[r].key) \/ ~InWindow(now, recs[r].timestamp)

\* axios.get resolves and the scratch file is written.
\* immediate: the attachment is sent; batch: its descriptor is kept, and after
\* the last attachment the entry is pushed
DcDownloadOk(m) ==
  /\ dc[m].pc = "download"
  /\ uploads' = uploads \cup {ScratchPath(dc[m])}
  /\ LET name == dc[m].names[dc[m].k]
     IN IF Batch(variant)
          THEN /\ waOut' = waOut
               /\ dc' = [dc EXCEPT ![m] = NextAttachment([@ EXCEPT !.got = Append(@, name)])]
               /\ recs' = IF dc[m].k < dc[m].natt THEN recs
                          ELSE PushResponse(recs, dc[m].target, m, Append(dc[m].got, name))
          ELSE /\ recs' = recs
               /\ dc' = [dc EXCEPT ![m] = [@ EXCEPT !.pc = "sendAtt",
                                                    !.late = Lapsed(dc[m].target)]]
               /\ waOut' = Append(waOut, FileItem(dc[m].target, m, RelayKind(name), name))
  /\ UNCHANGED <<server, inbound, variant, CONFIG, now, activeMessages, wa, expiry, errorLogged>>

\* axios.get or writeFileSync throws: the catch inside the attachment loop
DcDownloadThrows(m) ==
  /\ dc[m].pc = "download"
  /\ dc' = [dc EXCEPT ![m] = NextAttachment(@)]
  /\ recs' = IF Batch(variant) /\ dc[m].k >= dc[m].natt
               THEN PushResponse(recs, dc[m].target, m, dc[m].got)
               ELSE recs
  /\ UNCHANGED <<server, inbound, uploads, variant, CONFIG, now, activeMessages, wa, expiry, waOut>>
  /\ errorLogged' = TRUE

\* immediate: the attachment sendMessage resolves, the scratch file is removed
DcSendAttOk(m) ==
  /\ dc[m].pc = "sendAtt"
  /\ uploads' = uploads \ {ScratchPath(dc[m])}
  /\ dc' = [dc EXCEPT ![m] = NextAttachment(@)]
  /\ UNCHANGED <<server, inbound, variant, CONFIG, now, activeMessages, recs, wa, expiry, waOut, errorLogged>>

\* immediate: the attachment sendMessage throws: the catch inside the loop
DcSendAttThrows(m) ==
  /\ dc[m].pc = "sendAtt"
  /\ dc' = [dc EXCEPT ![m] = NextAttachment(@)]
  /\ UNCHANGED <<server, inbound, uploads, variant, CONFIG, now, activeMessages, recs, wa, expiry, waOut>>
  /\ errorLogged' = TRUE

\* handleDiscordMessage has returned
DcReturned(m) == dc[m].pc \in {"skipped", "nomatch", "done"}

\* ------------------------------------------------ the window-expiry callback
\* immediate: cleanupBridgeSession(bridgeId), when the timer fires
cleanupBridgeSession(e) ==
  /\ variant = "immediate"
  /\ expiry[e].pc = "armed"
  /\ now >= expiry[e].due
  /\ activeMessages' = MapDelete(activeMessages, recs[e].key)
  /\ expiry' = [expiry EXCEPT ![e] = [NewExpiry EXCEPT !.pc = "done"]]
  /\ UNCHANGED <<server, inbound, uploads, variant, CONFIG, now, recs, wa, dc, waOut, errorLogged>>

\* the scratch file of attachment j of entry i of record obj
EntryPath(obj, i, j) == Path(recs[obj].key, recs[obj].responses[i].atts[j])

\* the flush loop at attachment j of entry i of record obj, the disk holding the
\* files `disk`: the first attachment from j on whose file exists is sent (the
\* others are passed over), or the 1000 ms delay after the entry is awaited
FlushAttachments(e, obj, i, j, disk) ==
  LET entry == recs[obj].responses[i]
      present == {x \in j..Len(entry.atts) : EntryPath(obj, i, x) \in disk}
  IN IF present # {}
       THEN LET x == CHOOSE y \in present : \A z \in present : y <= z
            IN /\ waOut' = Append(waOut, FileItem(obj, entry.reply,
                                                  FlushKind(variant, entry.atts[x]),
                                                  entry.atts[x]))
               /\ expiry' = [expiry EXCEPT ![e] =
                               [@ EXCEPT !.pc = "att", !.due = 0, !.obj = obj, !.i = i, !.j = x]]
       ELSE /\ waOut' = waOut
            /\ expiry' = [expiry EXCEPT ![e] =
                            [@ EXCEPT !.pc = "delay", !.due = 0, !.obj = obj, !.i = i, !.j = 0]]

\* the flush loop at entry i of record obj: its text is sent when it has some
FlushEntry(e, obj, i) ==
  LET entry == recs[obj].responses[i]
  IN IF dc[entry.reply].text
       THEN /\ waOut' = Append(waOut, Item(obj, entry.reply, "text"))
            /\ expiry' = [expiry EXCEPT ![e] =
                            [@ EXCEPT !.pc = "text", !.due = 0, !.obj = obj, !.i = i, !.j = 0]]
       ELSE FlushAttachments(e, obj, i, 1, uploads)

\* a finally block that leaves the record
FlushKeep(m, k) == m

\* the finally block: activeMessages.delete(bridgeId)
FlushDelete(m, k) == MapDelete(m, k)

\* the callback ends: the finally block
FlushEnd(e) ==
  /\ activeMessages' = FlushDelete(activeMessages, recs[e].key)
  /\ expiry' = [expiry EXCEPT ![e] = [NewExpiry EXCEPT !.pc = "done"]]

\* batch: the timer fires and activeMessages.get(bridgeId) finds nothing
ExpiryNoRecord(e) ==
  /\ Batch(variant)
  /\ expiry[e].pc = "armed"
  /\ now >= expiry[e].due
  /\ MapGet(activeMessages, recs[e].key) = NoRec
  /\ expiry' = [expiry EXCEPT ![e] = [NewExpiry EXCEPT !.pc = "done"]]
  /\ UNCHANGED <<server, inbound, uploads, variant, CONFIG, now, activeMessages, recs, wa, dc, waOut, errorLogged>>

\* batch: processCollectedResponses(bridgeId), when the timer fires, up to the
\* first sendMessage: the no-response notice or the first entry
processCollectedResponses(e) ==
  /\ Batch(variant)
  /\ expiry[e].pc = "armed"
  /\ now >= expiry[e].due
  /\ MapGet(activeMessages, recs[e].key) # NoRec
  /\ LET obj == MapGet(activeMessages, recs[e].key)
     IN IF Len(recs[obj].responses) = 0
          THEN /\ waOut' = Append(waOut, Item(obj, 0, "notice"))
               /\ expiry' = [expiry EXCEPT ![e] = [@ EXCEPT !.pc = "notice", !.due = 0, !.obj = obj]]
          ELSE FlushEntry(e, obj, 1)
  /\ UNCHANGED <<server, inbound, uploads, variant, CONFIG, now, activeMessages, recs, wa, dc, errorLogged>>

\* the no-response notice resolves or throws: the finally block
FlushNoticeDone(e) ==
  /\ expiry[e].pc = "notice"
  /\ FlushEnd(e)
  /\ \E failed \in BOOLEAN : errorLogged' = (errorLogged \/ failed)
  /\ UNCHANGED <<server, inbound, uploads, variant, CONFIG, now, recs, wa, dc, waOut>>

\* an entry's text sendMessage resolves: its attachments follow
FlushTextOk(e) ==
  /\ expiry[e].pc = "text"
  /\ FlushAttachments(e, expiry[e].obj, expiry[e].i, 1, uploads)
  /\ UNCHANGED <<server, inbound, uploads, variant, CONFIG, now, activeMessages, recs, wa, dc, errorLogged>>

\* an entry's text sendMessage throws: the outer catch ends the flush
FlushTextThrows(e) ==
  /\ expiry[e].pc = "text"
  /\ FlushEnd(e)
  /\ UNCHANGED <<server, inbound, uploads, variant, CONFIG, now, recs, wa, dc, waOut>>
  /\ errorLogged' = TRUE

\* the inner catch: the failure notice naming the attachment is sent
FailNotice(e) ==
  LET entry == recs[expiry[e].obj].responses[expiry[e].i]
  IN /\ waOut' = Append(waOut, FileItem(expiry[e].obj, entry.reply, "fail",
                                        entry.atts[expiry[e].j]))
     /\ expiry' = [expiry EXCEPT ![e].pc = "failnotice"]
     /\ errorLogged' = TRUE

\* an attachment's sendMessage resolves: fs.unlinkSync removes the scratch
\* file, or throws into the inner catch when the file is gone
FlushAttOk(e) ==
  /\ expiry[e].pc = "att"
  /\ LET path == EntryPath(expiry[e].obj, expiry[e].i, expiry[e].j)
     IN IF path \in uploads
          THEN /\ uploads' = uploads \ {path}
               /\ FlushAttachments(e, expiry[e].obj, expiry[e].i, expiry[e].j + 1,
                                   uploads \ {path})
               /\ errorLogged' = errorLogged
          ELSE /\ uploads' = uploads
               /\ FailNotice(e)
  /\ UNCHANGED <<server, inbound, variant, CONFIG, now, activeMessages, recs, wa, dc>>

\* an attachment's sendMessage throws: the inner catch
FlushAttThrows(e) ==
  /\ expiry[e].pc = "att"
  /\ FailNotice(e)
  /\ UNCHANGED <<server, inbound, uploads, variant, CONFIG, now, activeMessages, recs, wa, dc>>

\* the failure notice resolves: the next attachment
FlushFailNoticeOk(e) ==
  /\ expiry[e].pc = "failnotice"
  /\ FlushAttachments(e, expiry[e].obj, expiry[e].i, expiry[e].j + 1, uploads)
  /\ UNCHANGED <<server, inbound, uploads, variant, CONFIG, now, activeMessages, recs, wa, dc, errorLogged>>

\* the failure notice throws inside the inner catch: the outer catch
FlushFailNoticeThrows(e) ==
  /\ expiry[e].pc = "failnotice"
  /\ FlushEnd(e)
  /\ UNCHANGED <<server, inbound, uploads, variant, CONFIG, now, recs, wa, dc, waOut>>
  /\ errorLogged' = TRUE

\* the 1000 ms delay is over: the array iterator yields the next entry of the
\* live array, or the loop ends (batchStrip sends its summary first)
FlushDelayDone(e) ==
  /\ expiry[e].pc = "delay"
  /\ LET obj == expiry[e].obj
     IN IF expiry[e].i < Len(recs[obj].responses)
          THEN /\ FlushEntry(e, obj, expiry[e].i + 1)
               /\ activeMessages' = activeMessages
          ELSE IF variant = "batchStrip"
            THEN /\ waOut' = Append(waOut, Item(obj, 0, "summary"))
                 /\ expiry' = [expiry EXCEPT ![e].pc = "summary"]
                 /\ activeMessages' = activeMessages
            ELSE /\ waOut' = waOut
                 /\ FlushEnd(e)
  /\ UNCHANGED <<server, inbound, uploads, variant, CONFIG, now, recs, wa, dc, errorLogged>>

\* batchStrip: the summary resolves or throws: the finally block
FlushSummaryDone(e) ==
  /\ expiry[e].pc = "summary"
  /\ FlushEnd(e)
  /\ \E failed \in BOOLEAN : errorLogged' = (errorLogged \/ failed)
  /\ UNCHANGED <<server, inbound, uploads, variant, CONFIG, now, recs, wa, dc, waOut>>

\* ----------------------------------------------------------- the sweeper
\* the retention test with >= for >
StaleAtCeiling(t, timestamp) == t - timestamp >= HourTicks

\* a retention test that never holds
StaleNever(t, timestamp) == FALSE

\* now - bridgeData.timestamp > 60 * 60 * 1000
Stale(t, timestamp) == t - timestamp > HourTicks

\* a sweeper that stores the stale records under a new id instead of deleting
\* them
SweptRekeyed(m, t) ==
  [i \in 1..Len(m) |->
     IF Stale(t, recs[m[i].rec].timestamp) THEN [key |-> <<t, 0>>, rec |-> m[i].rec]
                                           ELSE m[i]]

\* the Map after one run of the sweeper's loop
Swept(m, t) ==
  LET keep(x) == ~Stale(t, recs[x.rec].timestamp)
  IN SelectSeq(m, keep)

\* the setInterval callback: its first run is an hour after start-up, and any
\* run may be late
Sweep ==
  /\ now >= HourTicks
  /\ activeMessages' = Swept(activeMessages, now)
  /\ UNCHANGED <<server, inbound, uploads, variant, CONFIG, now, recs, wa, dc, expiry, waOut, errorLogged>>

\* ------------------------------------------------------------------ time
Tick ==
  /\ now < MaxTime
  /\ now' = now + 1
  /\ UNCHANGED <<server, inbound, uploads, variant, CONFIG, activeMessages, recs, wa, dc, expiry, waOut, errorLogged>>

Next ==
  \/ \E e \in AEvents : WaIgnored(e)
  \/ \E e \in AEvents : WaGetChatThrows(e)
  \/ \E e \in AEvents : handleWhatsAppMessage(e)
  \/ \E e \in AEvents : WaFetchThrows(e)
  \/ \E e \in AEvents : WaFetchNoChannel(e)
  \/ \E e \in AEvents : WaFetchOk(e)
  \/ \E e \in AEvents : WaDownloadNoMedia(e)
  \/ \E e \in AEvents : WaSendOk(e)
  \/ \E e \in AEvents : WaSendThrows(e)
  \/ \E e \in AEvents : WaUnlinkMedia(e)
  \/ \E m \in BEvents : DcSkipped(m)
  \/ \E m \in BEvents : DcNoMatch(m)
  \/ \E m \in BEvents : handleDiscordMessage(m)
  \/ \E m \in BEvents : DcSendTextOk(m)
  \/ \E m \in BEvents : DcSendTextThrows(m)
  \/ \E m \in BEvents : DcDownloadOk(m)
  \/ \E m \in BEvents : DcDownloadThrows(m)
  \/ \E m \in BEvents : DcSendAttOk(m)
  \/ \E m \in BEvents : DcSendAttThrows(m)
  \/ \E e \in AEvents : cleanupBridgeSession(e)
  \/ \E e \in AEvents : ExpiryNoRecord(e)
  \/ \E e \in AEvents : processCollectedResponses(e)
  \/ \E e \in AEvents : FlushNoticeDone(e)
  \/ \E e \in AEvents : FlushTextOk(e)
  \/ \E e \in AEvents : FlushTextThrows(e)
  \/ \E e \in AEvents : FlushAttOk(e)
  \/ \E e \in AEvents : FlushAttThrows(e)
  \/ \E e \in AEvents : FlushFailNoticeOk(e)
  \/ \E e \in AEvents : FlushFailNoticeThrows(e)
  \/ \E e \in AEvents : FlushDelayDone(e)
  \/ \E e \in AEvents : FlushSummaryDone(e)
  \/ Sweep
  \/ Tick

Spec == Init /\ [][Next]_vars

\* --------------------------------------------------------- timers that fire
\* the clock of the model stops at MaxTime: a platform-A event arrives only
\* while the clock can still pass the sweeper's ceiling after it
EarlyEnough == now + HourTicks < MaxTime

NextLive ==
  \/ \E e \in AEvents : EarlyEnough /\ WaIgnored(e)
  \/ \E e \in AEvents : EarlyEnough /\ WaGetChatThrows(e)
  \/ \E e \in AEvents : EarlyEnough /\ handleWhatsAppMessage(e)
  \/ \E e \in AEvents : WaFetchThrows(e)
  \/ \E e \in AEvents : WaFetchNoChannel(e)
  \/ \E e \in AEvents : WaFetchOk(e)
  \/ \E e \in AEvents : WaDownloadNoMedia(e)
  \/ \E e \in AEvents : WaSendOk(e)
  \/ \E e \in AEvents : WaSendThrows(e)
  \/ \E e \in AEvents : WaUnlinkMedia(e)
  \/ \E m \in BEvents : DcSkipped(m)
  \/ \E m \in BEvents : DcNoMatch(m)
  \/ \E m \in BEvents : handleDiscordMessage(m)
  \/ \E m \in BEvents : DcSendTextOk(m)
  \/ \E m \in BEvents : DcSendTextThrows(m)
  \/ \E m \in BEvents : DcDownloadOk(m)
  \/ \E m \in BEvents : DcDownloadThrows(m)
  \/ \E m \in BEvents : DcSendAttOk(m)
  \/ \E m \in BEvents : DcSendAttThrows(m)
  \/ \E e \in AEvents : cleanupBridgeSession(e)
  \/ \E e \in AEvents : ExpiryNoRecord(e)
  \/ \E e \in AEvents : processCollectedResponses(e)
  \/ \E e \in AEvents : FlushNoticeDone(e)
  \/ \E e \in AEvents : FlushTextOk(e)
  \/ \E e \in AEvents : FlushTextThrows(e)
  \/ \E e \in AEvents : FlushAttOk(e)
  \/ \E e \in AEvents : FlushAttThrows(e)
  \/ \E e \in AEvents : FlushFailNoticeOk(e)
  \/ \E e \in AEvents : FlushFailNoticeThrows(e)
  \/ \E e \in AEvents : FlushDelayDone(e)
  \/ \E e \in AEvents : FlushSummaryDone(e)
  \/ Sweep
  \/ Tick

\* time passes, and the sweeper's setInterval timer fires again and again
Fairness == WF_vars(Tick) /\ WF_vars(Sweep)

SpecLive == Init /\ [][NextLive]_vars /\ Fairness

\* ---------------------------------------------------- the configured window
\* MESSAGE_TIMEOUT_MINUTES is set: CONFIG.messageTimeout is what it says
InitConfig ==
  /\ InitEngine
  /\ CONFIG \in [messageTimeout : 1..MaxTimeout]
  /\ inbound = NoMessage
  /\ InitServer(TRUE)

\* one platform-A event, its expiry callback, the sweeper and the clock
NextConfig ==
  \/ WaIgnored(1)
  \/ WaGetChatThrows(1)
  \/ handleWhatsAppMessage(1)
  \/ \E e \in AEvents : WaFetchThrows(e)
  \/ \E e \in AEvents : WaFetchNoChannel(e)
  \/ \E e \in AEvents : WaFetchOk(e)
  \/ \E e \in AEvents : WaDownloadNoMedia(e)
  \/ \E e \in AEvents : WaSendOk(e)
  \/ \E e \in AEvents : WaSendThrows(e)
  \/ \E e \in AEvents : WaUnlinkMedia(e)
  \/ \E e \in AEvents : cleanupBridgeSession(e)
  \/ \E e \in AEvents : ExpiryNoRecord(e)
  \/ \E e \in AEvents : processCollectedResponses(e)
  \/ \E e \in AEvents : FlushNoticeDone(e)
  \/ Sweep
  \/ Tick

SpecConfig == InitConfig /\ [][NextConfig]_vars

\* ------------------------------------------------------------ the process
\* process.on('uncaughtException'): the error is logged and the 5000 ms restart
\* timer is set
uncaughtException ==
  /\ proc' = [proc EXCEPT !.uncaught = TRUE]
  /\ timers' = [timers EXCEPT !.restart = @ + 1]
  /\ errorLogged' = TRUE

\* the 5000 ms unlink timer fires, the file exists and fs.unlinkSync throws:
\* the timer's callback has no try block, the exception is uncaught
WaUnlinkThrows(e) ==
  /\ wa[e].unlink
  /\ wa[e].file \in uploads
  /\ timers.restart < MaxPending
  /\ wa' = [wa EXCEPT ![e].unlink = FALSE]
  /\ uncaughtException
  /\ UNCHANGED <<inbound, uploads, variant, CONFIG, now, activeMessages, recs, dc, expiry, waOut,
                 isWhatsAppReady, isDiscordReady, lastPing, initialized, res, clients>>

\* every client is initialized again, ready or not
RestartsAlways(ready) == TRUE

\* `if (!isDiscordReady) initializeDiscord()`, `if (!isWhatsAppReady)
\* initializeWhatsApp()`: whether the restart initializes the client again
Restarts(ready) == ~ready

\* the restart timer fires
RestartFires ==
  /\ timers.restart > 0
  /\ Restarts(isDiscordReady) => initialized.discord < MaxInit
  /\ Restarts(isWhatsAppReady) => initialized.whatsapp < MaxInit
  /\ timers' = [timers EXCEPT !.restart = @ - 1]
  /\ initialized' =
       [discord |-> initialized.discord + (IF Restarts(isDiscordReady) THEN 1 ELSE 0),
        whatsapp |-> initialized.whatsapp + (IF Restarts(isWhatsAppReady) THEN 1 ELSE 0)]
  /\ clients' = clients + (IF Restarts(isWhatsAppReady) THEN 1 ELSE 0)
  /\ UNCHANGED <<variant, CONFIG, now, activeMessages, recs, wa, dc, expiry, waOut, errorLogged,
                 inbound, uploads, isWhatsAppReady, isDiscordReady, lastPing, proc, res>>

\* whatsappClient.on('ready'), of any instance
WhatsAppReady ==
  /\ clients > 0
  /\ isWhatsAppReady' = TRUE
  /\ UNCHANGED <<variant, CONFIG, now, activeMessages, recs, wa, dc, expiry, waOut, errorLogged,
                 inbound, uploads, isDiscordReady, lastPing, timers, initialized, proc, res, clients>>

\* whatsappClient.on('disconnected'), of any instance: the instance is gone, the
\* 5000 ms reconnect timer is set
WhatsAppDisconnected ==
  /\ clients > 0
  /\ timers.reconnect < MaxPending
  /\ isWhatsAppReady' = FALSE
  /\ clients' = clients - 1
  /\ timers' = [timers EXCEPT !.reconnect = @ + 1]
  /\ UNCHANGED <<variant, CONFIG, now, activeMessages, recs, wa, dc, expiry, waOut, errorLogged,
                 inbound, uploads, isDiscordReady, lastPing, initialized, proc, res>>

\* the reconnect timer fires: initializeWhatsApp()
ReconnectFires ==
  /\ timers.reconnect > 0
  /\ initialized.whatsapp < MaxInit
  /\ timers' = [timers EXCEPT !.reconnect = @ - 1]
  /\ initialized' = [initialized EXCEPT !.whatsapp = @ + 1]
  /\ clients' = clients + 1
  /\ UNCHANGED <<variant, CONFIG, now, activeMessages, recs, wa, dc, expiry, waOut, errorLogged,
                 inbound, uploads, isWhatsAppReady, isDiscordReady, lastPing, proc, res>>

\* `await whatsappClient.initialize()` of an instance rejects: the catch logs
\* the error and sets the 15000 ms retry timer; the instance is gone
WhatsAppInitFails ==
  /\ clients > 0
  /\ timers.retry < MaxPending
  /\ clients' = clients - 1
  /\ timers' = [timers EXCEPT !.retry = @ + 1]
  /\ errorLogged' = TRUE
  /\ UNCHANGED <<variant, CONFIG, now, activeMessages, recs, wa, dc, expiry, waOut,
                 inbound, uploads, isWhatsAppReady, isDiscordReady, lastPing, initialized,
                 proc, res>>

\* the retry timer fires: initializeWhatsApp()
RetryFires ==
  /\ timers.retry > 0
  /\ initialized.whatsapp < MaxInit
  /\ timers' = [timers EXCEPT !.retry = @ - 1]
  /\ initialized' = [initialized EXCEPT !.whatsapp = @ + 1]
  /\ clients' = clients + 1
  /\ UNCHANGED <<variant, CONFIG, now, activeMessages, recs, wa, dc, expiry, waOut, errorLogged,
                 inbound, uploads, isWhatsAppReady, isDiscordReady, lastPing, proc, res>>

\* discordClient.once('clientReady')
DiscordReady ==
  /\ isDiscordReady' = TRUE
  /\ UNCHANGED <<variant, CONFIG, now, activeMessages, recs, wa, dc, expiry, waOut, errorLogged,
                 inbound, uploads, isWhatsAppReady, lastPing, timers, initialized, proc, res, clients>>

\* process.on('SIGINT'), process.on('SIGTERM'): process.exit(0)
Shutdown ==
  /\ ~proc.exited
  /\ proc' = [proc EXCEPT !.exited = TRUE]
  /\ UNCHANGED <<variant, CONFIG, now, activeMessages, recs, wa, dc, expiry, waOut, errorLogged,
                 inbound, uploads, isWhatsAppReady, isDiscordReady, lastPing, timers,
                 initialized, res, clients>>

\* a platform-A event is delivered to the 'message' listener
NextArrival ==
  \/ \E e \in AEvents : WaIgnored(e)
  \/ \E e \in AEvents : WaGetChatThrows(e)
  \/ \E e \in AEvents : handleWhatsAppMessage(e)

\* handleWhatsAppMessage goes on after an await, or its unlink timer fires
NextForward ==
  \/ \E e \in AEvents : WaFetchThrows(e)
  \/ \E e \in AEvents : WaFetchNoChannel(e)
  \/ \E e \in AEvents : WaFetchOk(e)
  \/ \E e \in AEvents : WaDownloadNoMedia(e)
  \/ \E e \in AEvents : WaSendOk(e)
  \/ \E e \in AEvents : WaSendThrows(e)
  \/ \E e \in AEvents : WaUnlinkMedia(e)

\* The process from start-up: the clients become ready, disconnect and fail to
\* initialize, a ready platform-A client delivers events, the platform-A side
\* of the engine runs, an unlink timer may throw.  After
\* process.exit nothing runs.
InitProcess ==
  InitEngine /\ CONFIG = DefaultConfig /\ inbound = NoMessage /\ InitServer(FALSE)

NextProcess ==
  \/ Shutdown
  \/ ~proc.exited /\ clients > 0 /\ isWhatsAppReady /\ NextArrival
  \/ ~proc.exited /\ NextForward
  \/ ~proc.exited /\ \E e \in AEvents : WaUnlinkThrows(e)
  \/ ~proc.exited /\ RestartFires
  \/ ~proc.exited /\ WhatsAppReady
  \/ ~proc.exited /\ WhatsAppDisconnected
  \/ ~proc.exited /\ ReconnectFires
  \/ ~proc.exited /\ WhatsAppInitFails
  \/ ~proc.exited /\ RetryFires
  \/ ~proc.exited /\ DiscordReady

SpecProcess == InitProcess /\ [][NextProcess]_vars

\* --------------------------------------------------------- the HTTP routes
\* the routes of each variant
Routes(v) ==
  CASE v = "batchStrip" -> {"/", "/health", "/ping", "/status", "/dashboard"}
    [] v = "immediate" -> {"/", "/health", "/ping", "/status", "/qr", "/dashboard"}
    [] v = "batchKeep" -> {"/", "/health", "/ping", "/status", "/qr-string", "/qr",
                           "/dashboard"}

\* /health writes lastPing as well
WritesPingOrHealth(route) == route \in {"/ping", "/health"}

\* the routes that assign lastPing = Date.now()
WritesPing(route) == route = "/ping"

\* app.get(route, ...): the handler of one request
HttpGet(route) ==
  /\ lastPing' = IF WritesPing(route) THEN now ELSE lastPing
  /\ res' = route
  /\ UNCHANGED <<variant, CONFIG, now, activeMessages, recs, wa, dc, expiry, waOut, errorLogged,
                 inbound, uploads, isWhatsAppReady, isDiscordReady, timers, initialized, proc, clients>>

\* The server answering requests while the clients become ready and one
\* platform-A event is handled.
NextHttp ==
  \/ \E route \in Routes(variant) : HttpGet(route)
  \/ WaIgnored(1)
  \/ WaGetChatThrows(1)
  \/ handleWhatsAppMessage(1)
  \/ \E e \in AEvents : WaFetchThrows(e)
  \/ \E e \in AEvents : WaFetchNoChannel(e)
  \/ \E e \in AEvents : WaFetchOk(e)
  \/ \E e \in AEvents : WaDownloadNoMedia(e)
  \/ \E e \in AEvents : WaSendOk(e)
  \/ \E e \in AEvents : WaSendThrows(e)
  \/ \E e \in AEvents : WaUnlinkMedia(e)
  \/ WhatsAppReady
  \/ DiscordReady
  \/ Tick

SpecHttp == InitProcess /\ [][NextHttp]_vars

\* ------------------------------------------- the admission filter by itself
\* One platform-A message, body and origin fixed when the run starts, is given
\* to handleWhatsAppMessage, which runs to its return.
InitFilter ==
  /\ InitEngine
  /\ CONFIG = DefaultConfig
  /\ inbound \in [body : Bodies, from : Froms, chat : Chats]
  /\ InitServer(TRUE)

FilterIgnored == WaIgnoredOn(1, inbound.body, inbound.from)
FilterGetChatThrows == WaGetChatThrowsOn(1, inbound.body, inbound.from)
FilterAdmitted ==
  handleWhatsAppMessageOn(1, inbound.body, inbound.from, inbound.chat)

NextFilter ==
  \/ FilterIgnored
  \/ FilterGetChatThrows
  \/ FilterAdmitted
  \/ \E e \in AEvents : WaFetchThrows(e)
  \/ \E e \in AEvents : WaFetchNoChannel(e)
  \/ \E e \in AEvents : WaFetchOk(e)
  \/ \E e \in AEvents : WaDownloadNoMedia(e)
  \/ \E e \in AEvents : WaSendOk(e)
  \/ \E e \in AEvents : WaSendThrows(e)
  \/ \E e \in AEvents : WaUnlinkMedia(e)

SpecFilter == InitFilter /\ [][NextFilter]_vars

\* ========================================================== the claims
\* platform-B event m arrives in this step
Arrives(m) == dc[m].pc = "new" /\ dc'[m].pc # "new"

\* the record at Map position i is within its window now
WithinWindow(i) ==
  now <= recs[activeMessages[i].rec].timestamp + messageTimeout

\* the positions of waOut' that this step added
Added == {i \in 1..Len(waOut') : i > Len(waOut)}

\* C1: a reply is attributed, when it is received at time t, only to a record
\* with t - timestamp <= messageTimeout; a record whose window has elapsed gets
\* nothing from the reply (no target, no relay, no entry), stored or not.
C1_OnlyWithinWindow ==
  [][\A m \in BEvents : Arrives(m) =>
       /\ dc'[m].target # NoRec =>
            now <= recs[dc'[m].target].timestamp + messageTimeout
       /\ \A r \in AEvents :
            (recs[r].made /\ now > recs[r].timestamp + messageTimeout) =>
              /\ dc'[m].target # r
              /\ recs'[r].responses = recs[r].responses
              /\ \A i \in Added : waOut'[i].chat # r]_vars

\* C1 witness: a reply found no record although the loop passed over a stored
\* record, whose window had elapsed
C1_Witness == \E m \in BEvents : dc[m].pc = "nomatch" /\ dc[m].passed > 0

\* C2 as stated: a reply is attributed to every stored record that is within
\* its window when the reply is received.
C2_EveryRecordWithinWindow ==
  [][\A m \in BEvents : (Arrives(m) /\ dc'[m].pc # "skipped") =>
       \A i \in 1..Len(activeMessages) :
         WithinWindow(i) => dc'[m].target = activeMessages[i].rec]_vars

\* the entries of record r that hold reply m
EntriesOf(r, m) == {i \in 1..Len(recs[r].responses) : recs[r].responses[i].reply = m}

\* C2 amended: a reply the handler does not return early on is attributed to the
\* earliest-inserted stored record that is within its window when the reply is
\* received: the immediate relay of its first item starts in that step, the
\* batch entry is in that record's responses once the handler has returned.
C2_FirstRecordWithinWindow ==
  /\ [][\A m \in BEvents : (Arrives(m) /\ dc'[m].pc # "skipped") =>
          \A i \in 1..Len(activeMessages) :
            (WithinWindow(i) /\ \A j \in 1..(i - 1) : ~WithinWindow(j)) =>
              /\ dc'[m].target = activeMessages[i].rec
              /\ (~Batch(variant) /\ dc'[m].text) =>
                   /\ Len(waOut') = Len(waOut) + 1
                   /\ waOut'[Len(waOut')] = Item(activeMessages[i].rec, m, "text")
              /\ (~Batch(variant) /\ ~dc'[m].text /\ dc'[m].natt > 0) =>
                   dc'[m].pc = "download"]_vars
  /\ [](\A m \in BEvents :
          (Batch(variant) /\ dc[m].pc = "done") =>
             Cardinality(EntriesOf(dc[m].target, m)) = 1)

\* C2 witness: a reply was attributed while two records were within their window
C2_Witness == \E m \in BEvents : dc[m].target # NoRec /\ dc[m].live >= 2

\* the records reply m has reached: as an entry, or as the chat of a relay
ReachedBy(m) ==
  {r \in AEvents : EntriesOf(r, m) # {}}
  \cup {waOut[i].chat : i \in {x \in 1..Len(waOut) : waOut[x].reply = m}}

\* C7: a reply is attributed to at most one record, the first in the Map's
\* insertion order among those within their window when the reply is received:
\* every entry before it is out of its window, and no other record ever gets
\* an entry or a relay of the reply.
C7_FirstMatchOnly ==
  /\ [][\A m \in BEvents : (Arrives(m) /\ dc'[m].target # NoRec) =>
          \E i \in 1..Len(activeMessages) :
            /\ activeMessages[i].rec = dc'[m].target
            /\ WithinWindow(i)
            /\ \A j \in 1..(i - 1) : ~WithinWindow(j)]_vars
  /\ [](\A m \in BEvents : ReachedBy(m) \subseteq ({dc[m].target} \ {NoRec}))

\* C7 witness: the loop passed over a record out of its window and attributed
\* the reply to a later one
C7_Witness == \E m \in BEvents : dc[m].target # NoRec /\ dc[m].passed > 0

\* the "no response" notices sent to the chat of record e
Notices(e) == {i \in 1..Len(waOut) : waOut[i] = Item(e, 0, "notice")}

\* C3: in the batch variants a record that got no reply gets exactly one "no
\* response" notice.  Stated for the records that were not rolled back, at the
\* states where the notice can no longer come: the handler has returned and no
\* expiry callback is pending or running.
C3_ExactlyOneNotice ==
  \A e \in AEvents :
    ( /\ Batch(variant)
      /\ recs[e].made
      /\ wa[e].pc \in {"nochannel", "nomedia", "forwarded"}
      /\ expiry[e].pc \in {"none", "done"}
      /\ \A m \in BEvents : dc[m].target # e )
    => Cardinality(Notices(e)) = 1

\* the sends of the text of reply m to the chat of record e
TextSends(e, m) == {i \in 1..Len(waOut) : waOut[i] = Item(e, m, "text")}

\* C4: in the batch variants every reply admitted within a record's window is
\* relayed exactly once when the record is flushed.  Stated for the replies
\* that have a text, at the states where the flush is over and nothing failed.
C4_AdmittedReplyRelayedOnce ==
  \A e \in AEvents, m \in BEvents :
    ( /\ Batch(variant)
      /\ expiry[e].pc = "done"
      /\ ~errorLogged
      /\ dc[m].target = e
      /\ dc[m].text )
    => Cardinality(TextSends(e, m)) = 1

\* the relays to one chat are in receipt order: platform-B events are numbered
\* in the order handleDiscordMessage receives them
ReceiptOrder ==
  \A i, j \in 1..Len(waOut) :
    (i < j /\ waOut[i].chat = waOut[j].chat /\ waOut[i].reply # 0 /\ waOut[j].reply # 0)
      => waOut[i].reply <= waOut[j].reply

\* C5: in the batch variants the entries of a record are relayed at flush in
\* the order their replies were received.
C5_FlushInReceiptOrder == Batch(variant) => ReceiptOrder

\* C6: in the immediate variant every item of an earlier reply is sent before
\* any item of a later reply.
C6_RelayInReceiptOrder == variant = "immediate" => ReceiptOrder

\* C8: a record whose forward could not be delivered (the fetch threw or
\* yielded no channel, the send threw) is absent from activeMessages once
\* handleWhatsAppMessage has returned.
C8_UndeliveredRecordRemoved ==
  \A e \in AEvents :
    wa[e].pc \in {"nochannel", "rolledback"} => e \notin Stored(activeMessages)

EntriesHolding(m, e) == {i \in 1..Len(m) : m[i].rec = e}

C10_UniqueIds ==
  \A d, e \in AEvents :
    (d # e /\ recs[d].made /\ recs[e].made) => recs[d].key # recs[e].key

\* the three reasons of the admission filter to ignore a message
FailsFilter(v, msg) ==
  \/ ~(Len(msg.body) > 0 /\ msg.body[1] = triggerChar)
  \/ msg.from = "status@broadcast"
  \/ Content(v, msg.body) = <<>>

\* C11: a platform-A event that fails the admission filter (no trigger at the
\* start of the body, broadcast origin, or nothing left of the body) never
\* changes activeMessages, makes no record, sends nothing to platform B and
\* sets no timer.
C11_IgnoredEventNoEffect ==
  FailsFilter(variant, inbound) =>
    /\ activeMessages = <<>>
    /\ \A e \in AEvents : ~recs[e].made /\ ~wa[e].sent /\ expiry[e].pc = "none"
    /\ wa[1].pc \in {"new", "ignored"}

\* C11 witness: a message with the trigger and a body, of broadcast origin, was
\* ignored
C11_Witness ==
  /\ wa[1].pc = "ignored"
  /\ inbound.from = "status@broadcast"
  /\ Content(variant, inbound.body) # <<>>
  /\ inbound.body[1] = triggerChar

\* what is left of a trimmed body under the variant's keep/strip policy
Remaining(v, trimmed) ==
  IF v = "batchStrip" THEN Trim(SubSeq(trimmed, 2, Len(trimmed))) ELSE trimmed

\* the reference predicate of the admission filter
Reference(v, msg) ==
  /\ Len(Trim(msg.body)) > 0 /\ Trim(msg.body)[1] = triggerChar
  /\ msg.from # "status@broadcast"
  /\ Remaining(v, Trim(msg.body)) # <<>>

\* C12: the admission decision of handleWhatsAppMessage equals the reference
\* predicate: the trimmed body starts with the trigger, the origin is not
\* status@broadcast, and what the keep/strip policy leaves is not empty.
C12_AdmissionEqualsReference ==
  wa[1].pc # "new" => ((wa[1].pc # "ignored") <=> Reference(variant, inbound))


\* record r was stored and its id has been deleted from activeMessages
Deleted(r) == recs[r].made /\ ~MapHas(activeMessages, recs[r].key)

\* C13: once a record is deleted from activeMessages nothing is attributed to
\* it: no entry is appended to its responses and no relay of a reply to its
\* conversation is started, also not by a handleDiscordMessage invocation that
\* selected it before the deletion.
C13_DeletedRecordGetsNothing ==
  [][\A r \in AEvents : Deleted(r) =>
       /\ recs'[r].responses = recs[r].responses
       /\ \A i \in Added : ~(waOut'[i].chat = r /\ waOut'[i].reply # 0)]_vars

\* this step is a step of an expiry callback for the id of record r, taken
\* when the window of r is over
CallbackStepFor(r) ==
  \E x \in AEvents :
    /\ recs[x].key = recs[r].key
    /\ expiry[x].pc \notin {"none", "done"}
    /\ expiry'[x] # expiry[x]
    /\ now >= recs[r].timestamp + messageTimeout

\* C14: in the batch variants no step of handleDiscordMessage sends to
\* platform A, and every message to a record's conversation is sent by a step
\* of the expiry callback of that record's id, not before its window is over.
C14_BatchSendsOnlyAtExpiry ==
  [][(variant \in {"batchStrip", "batchKeep"}) =>
       /\ (dc' # dc) => (waOut' = waOut)
       /\ \A i \in Added : CallbackStepFor(waOut'[i].chat)]_vars

\* C14 witness: a batch record holds a collected reply, its timer is pending
\* and nothing has been sent to platform A
C14_Witness ==
  \E r \in AEvents :
    /\ variant \in {"batchStrip", "batchKeep"}
    /\ Len(recs[r].responses) > 0
    /\ expiry[r].pc = "armed"
    /\ waOut = <<>>

RemovedByOther(r) ==
  \/ \E e \in AEvents : /\ recs[e].key = recs[r].key
                         /\ wa[e].pc \in {"fetch", "send"}
                         /\ wa'[e].pc = "rolledback"
  \/ \E e \in AEvents : /\ recs[e].key = recs[r].key
                         /\ expiry[e].pc = "armed" /\ expiry'[e].pc = "done"
                         /\ now >= recs[r].timestamp + messageTimeout
  \/ now - recs[r].timestamp > HourTicks /\ dc' = dc /\ wa' = wa /\ expiry' = expiry
  \/ \E e \in AEvents : /\ wa[e].pc = "new" /\ wa'[e].pc = "fetch"
                         /\ recs'[e].key = recs[r].key

FailNotices(m) ==
  {i \in 1..Len(waOut) : waOut[i].kind = "fail" /\ waOut[i].reply = m}

\* C16: each reply attachment whose download or send fails causes a failure
\* notice naming it to be sent to the destination conversation.  Stated for the
\* batch variants at the end: the entry of reply m was flushed (its text was
\* relayed) and the flush is over; when the entry holds fewer descriptors than
\* the reply had attachments, a download failed.
C16_FailedAttachmentNoticed ==
  \A r \in AEvents, m \in BEvents :
    ( /\ variant \in {"batchStrip", "batchKeep"}
      /\ dc[m].pc = "done" /\ dc[m].target = r
      /\ expiry[r].pc = "done"
      /\ TextSends(r, m) # {}
      /\ \E i \in EntriesOf(r, m) : Len(recs[r].responses[i].atts) < dc[m].natt )
    => FailNotices(m) # {}

\* C17: a failure of one reply attachment never keeps the remaining attachments
\* of the reply or the remaining entries of the record from being processed,
\* also when the failure notice itself cannot be sent: the flush never ends,
\* after an attachment or its failure notice, before the last entry.
C17_FailureDoesNotAbort ==
  [][\A e \in AEvents :
       (expiry[e].pc \in {"att", "failnotice"} /\ expiry'[e].pc = "done") =>
         /\ expiry[e].i = Len(recs[expiry[e].obj].responses)
         /\ expiry[e].j = Len(recs[expiry[e].obj].responses[expiry[e].i].atts)]_vars

\* C18: the scratch file of a reply attachment is absent once the send of that
\* attachment has completed, with success or with a logged failure: in the
\* step that ends the send, of the immediate relay or of the flush.
C18_ScratchFileGoneAfterSend ==
  [][/\ \A m \in BEvents :
          (dc[m].pc = "sendAtt" /\ dc'[m] # dc[m]) => ScratchPath(dc[m]) \notin uploads'
     /\ \A e \in AEvents :
          (expiry[e].pc = "att" /\ expiry'[e] # expiry[e]) =>
            EntryPath(expiry[e].obj, expiry[e].i, expiry[e].j) \notin uploads']_vars

\* C19: every scratch file handleWhatsAppMessage writes for inbound media is
\* deleted in the end.  Stated where nothing is left that deletes it: the
\* handler has returned and no unlink timer is pending.
C19_InboundScratchFileDeleted ==
  \A e \in AEvents :
    (wa[e].file # <<>> /\ WaReturned(e) /\ ~wa[e].unlink) => wa[e].file \notin uploads

\* C20: an attachment whose name ends in .txt is relayed as a text message with
\* the file's content, never as a media message.
C20_TxtRelayedInline ==
  \A i \in 1..Len(waOut) :
    (waOut[i].kind \in {"txt", "media"} /\ IsTxt(waOut[i].name)) => waOut[i].kind = "txt"

\* the entries of Map m whose record is older than the retention ceiling at t
Expired(m, t) == {i \in 1..Len(m) : t - recs[m[i].rec].timestamp > HourTicks}

\* C21: a run of the sweeper removes every record with now - timestamp > 1 hour
\* and leaves every record with now - timestamp <= 1 hour in activeMessages,
\* under its id.
C21_SweeperRemovesExactlyStale ==
  [][Sweep =>
       \A i \in 1..Len(activeMessages) :
         IF i \in Expired(activeMessages, now)
           THEN ~MapHas(activeMessages', activeMessages[i].key)
           ELSE MapGet(activeMessages', activeMessages[i].key) = activeMessages[i].rec]_vars

\* record e never got an expiry timer, no other record has its id, and its id
\* is out of activeMessages: only the sweeper can have removed it
SweptAway(e) ==
  /\ recs[e].made /\ wa[e].pc = "nochannel"
  /\ \A d \in AEvents \ {e} : recs[d].made => recs[d].key # recs[e].key
  /\ ~MapHas(activeMessages, recs[e].key)

\* C21 witness: the sweeper has removed a record older than the ceiling and a
\* record exactly at the ceiling is still stored
C21_Witness ==
  \E e \in AEvents :
    /\ SweptAway(e)
    /\ \E i \in 1..Len(activeMessages) :
         now - recs[activeMessages[i].rec].timestamp = HourTicks

\* C22: the sweeper only deletes: a run inserts no entry, leaves the surviving
\* entries as they were and in their order, changes no record object (its
\* fields and its responses), and sends nothing to either platform.
C22_SweeperOnlyDeletes ==
  [][Sweep =>
       /\ \A i \in 1..Len(activeMessages') :
            \E j \in 1..Len(activeMessages) : activeMessages[j] = activeMessages'[i]
       /\ \A i, j \in 1..Len(activeMessages') :
            i < j => MapIndex(activeMessages, activeMessages'[i].key)
                       < MapIndex(activeMessages, activeMessages'[j].key)
       /\ recs' = recs
       /\ waOut' = waOut
       /\ \A e \in AEvents : wa'[e].sent = wa[e].sent]_vars

\* C22 witness: the sweeper has removed a record and a record that holds a
\* collected reply is still stored
C22_Witness ==
  \E e \in AEvents :
    /\ SweptAway(e)
    /\ \E r \in Stored(activeMessages) : Len(recs[r].responses) > 0

\* C23: in every variant the record of an admitted A-event from a group
\* conversation stores, as whatsappChatId, the identifier of the conversation
\* object getChat() resolved.
C23_GroupRecordStoresChatId ==
  (recs[1].made /\ IsGroup(inbound.chat)) => recs[1].whatsappChatId = inbound.chat

\* C24: a platform-B event whose channel is not the bridge channel has no
\* effect: activeMessages and every record (its responses too) are unchanged,
\* the handler returns at once, so no attachment is downloaded and no scratch
\* file written, and nothing is sent to platform A.
C24_OtherChannelNoEffect ==
  [][\A m \in BEvents :
       (Arrives(m) /\ dc'[m].channel # "bridge") =>
         /\ dc'[m].pc = "skipped"
         /\ activeMessages' = activeMessages
         /\ recs' = recs
         /\ uploads' = uploads
         /\ waOut' = waOut]_vars

\* C24 witness: an event of another channel was skipped while a record within
\* its window is stored
C24_Witness ==
  \E m \in BEvents :
    /\ dc[m].pc = "skipped" /\ dc[m].channel = "other"
    /\ FirstActive(activeMessages, now) # NoRec

\* C25: a failure of a send, a download or a scratch-file operation never
\* leaves the operation that caused it: nothing raised in handleWhatsAppMessage,
\* handleDiscordMessage, the expiry callback or the unlink timer of a scratch
\* file reaches the process as an uncaught exception.
C25_FailuresContained == ~proc.uncaught

\* C26: when the restart timer set by an uncaught exception fires, the clients
\* whose ready flag is false are initialized again, each once, a client whose
\* ready flag is true is not, and the process does not exit.
C26_RestartInitializesNotReady ==
  [][(timers'.restart < timers.restart) =>
       /\ initialized'.discord = initialized.discord + (IF isDiscordReady THEN 0 ELSE 1)
       /\ initialized'.whatsapp = initialized.whatsapp + (IF isWhatsAppReady THEN 0 ELSE 1)
       /\ ~proc'.exited]_vars

\* C26 witness: a restart has initialized the platform-B client again (nothing
\* else does) and has left the platform-A client, which was ready, alone
C26_Witness ==
  /\ proc.uncaught /\ ~proc.exited
  /\ timers.restart = 0
  /\ initialized.discord = 2
  /\ initialized.whatsapp = 1
  /\ isWhatsAppReady

\* this step is the answer to an HTTP request
HttpStep == \E route \in Routes(variant) : HttpGet(route)

\* C28 as stated: handling an HTTP request leaves activeMessages, its
\* records, isWhatsAppReady, isDiscordReady and lastPing as they were.
C28_HttpLeavesStateUnchanged ==
  [][HttpStep =>
       /\ activeMessages' = activeMessages /\ recs' = recs
       /\ isWhatsAppReady' = isWhatsAppReady /\ isDiscordReady' = isDiscordReady
       /\ lastPing' = lastPing]_vars

\* C28 amended: handling an HTTP request leaves activeMessages, its records,
\* isWhatsAppReady and isDiscordReady as they were; lastPing is written by
\* /ping, which sets it to Date.now(), and by no other route.
C28_HttpWritesOnlyLastPing ==
  [][HttpStep =>
       /\ activeMessages' = activeMessages /\ recs' = recs
       /\ isWhatsAppReady' = isWhatsAppReady /\ isDiscordReady' = isDiscordReady
       /\ lastPing' = (IF res' = "/ping" THEN now ELSE lastPing)]_vars

\* C28 witness: /ping has been answered, with a new lastPing, while a record
\* is stored and one client is ready
C28_Witness ==
  /\ res = "/ping" /\ lastPing = now /\ now > 0
  /\ activeMessages # <<>>
  /\ isDiscordReady /\ ~isWhatsAppReady

\* the items of reply m sent to the conversation of record r
RelayedItems(r, m) ==
  {i \in 1..Len(waOut) : waOut[i].chat = r /\ waOut[i].reply = m}

\* C27: the window is a soft deadline.  In the immediate variant, once a reply
\* has been admitted for a record every item of it, the text and each
\* attachment, is sent to the record's conversation, also when the window
\* lapses or the record is deleted while the relay waits in an await: when the
\* handler has returned and no operation has failed, all items have been sent.
C27_RelayOutlivesWindow ==
  \A m \in BEvents :
    ( /\ variant = "immediate"
      /\ dc[m].pc = "done" /\ dc[m].target # NoRec
      /\ ~errorLogged )
    => Cardinality(RelayedItems(dc[m].target, m))
         = (IF dc[m].text THEN 1 ELSE 0) + dc[m].natt

\* C27 witness: the text of a reply was relayed and its attachment is being
\* sent to the conversation of a record that had lapsed when the send began
C27_Witness ==
  \E m \in BEvents :
    /\ variant = "immediate"
    /\ dc[m].pc = "sendAtt" /\ dc[m].late /\ dc[m].text
    /\ ~MapHas(activeMessages, recs[dc[m].target].key)
    /\ ~errorLogged
    /\ Cardinality(RelayedItems(dc[m].target, m)) = 2

\* the expiry actions scheduled for id k that have not finished: the timer is
\* pending or its callback is running
ScheduledFor(k) ==
  {x \in AEvents : recs[x].made /\ recs[x].key = k /\ expiry[x].pc \notin {"none", "done"}}

\* C29: every record that is in activeMessages after its handleWhatsAppMessage
\* has returned has exactly one window-expiry action scheduled for its id.
C29_OneExpiryPerStoredRecord ==
  \A i \in 1..Len(activeMessages) :
    WaReturned(activeMessages[i].rec) =>
      Cardinality(ScheduledFor(activeMessages[i].key)) = 1

\* C30: for every admitted A-event whose record is in activeMessages after
\* handleWhatsAppMessage has returned, exactly one message was sent to platform
\* B: discordChannel.send() was called, once, with the scratch file when the
\* event brought media and with the text alone otherwise, also for an event
\* flagged hasMedia whose downloadMedia() yields no payload.  Stated for the
\* events whose channel was found.
C30_StoredRecordWasForwarded ==
  \A i \in 1..Len(activeMessages) :
    LET e == activeMessages[i].rec
    IN (WaReturned(e) /\ wa[e].pc # "nochannel") => wa[e].sent

\* the callback processCollectedResponses of event e is running: it has read
\* the record and has not reached the end of its finally block
Flushing(x) == x.pc \in {"notice", "text", "att", "failnotice", "delay", "summary"}

\* C31: in the batch variants processCollectedResponses removes the id of its
\* record from activeMessages in every outcome (after the notice, after a
\* complete flush, when a send throws), and only when it has stopped sending:
\* no step of the callback but its last changes activeMessages, and the last
\* step sends nothing and leaves the id out of activeMessages.
C31_FlushAlwaysRemoves ==
  [][\A e \in AEvents :
       /\ (Flushing(expiry'[e]) /\ expiry'[e] # expiry[e]) =>
            activeMessages' = activeMessages
       /\ (Flushing(expiry[e]) /\ ~Flushing(expiry'[e])) =>
            /\ expiry'[e].pc = "done"
            /\ ~MapHas(activeMessages', recs[e].key)
            /\ waOut' = waOut]_vars

\* C31 witness: a flush that sent a failure notice for an attachment is over
\* and the id of its record is out of activeMessages
C31_Witness ==
  \E e \in AEvents :
    /\ expiry[e].pc = "done"
    /\ ~MapHas(activeMessages, recs[e].key)
    /\ \E i \in 1..Len(waOut) : waOut[i].chat = e /\ waOut[i].kind = "fail"

\* the place of reply m among the entries of record r, 0 when it has none
EntryOf(r, m) ==
  IF EntriesOf(r, m) = {} THEN 0 ELSE CHOOSE i \in EntriesOf(r, m) : TRUE

\* the items of replies sent to the conversation of record r, in send order
FlushItems(r) ==
  SelectSeq(waOut, LAMBDA it : it.chat = r /\ it.reply # 0)

C33_OwnPostNeverAttributed ==
  \A m \in BEvents : dc[m].own => dc[m].target = NoRec

\* C34: no reply is attributed to a record whose forward to B has not
\* completed: an event that arrives while handleWhatsAppMessage is at one of
\* its awaits is not given that record.
C34_NoReplyBeforeForward ==
  [][\A m \in BEvents :
       (Arrives(m) /\ dc'[m].target # NoRec) => WaReturned(dc'[m].target)]_vars

\* the callback of the expiry timer of event e starts in this step
TimerFires(e) == expiry[e].pc = "armed" /\ expiry'[e].pc # "armed"

\* C35: the expiry action never runs early: whenever processCollectedResponses
\* or cleanupBridgeSession runs for a record, at least messageTimeout has
\* passed since the record's timestamp.
C35_ExpiryNeverEarly ==
  [][\A e \in AEvents :
       TimerFires(e) =>
         /\ now - recs[e].timestamp >= messageTimeout
         /\ \A r \in AEvents :
              MapGet(activeMessages, recs[e].key) = r =>
                now - recs[r].timestamp >= messageTimeout]_vars

\* C35 witness: a callback has run to its end exactly messageTimeout after the
\* timestamp of its record
C35_Witness ==
  \E e \in AEvents :
    /\ expiry[e].pc = "done"
    /\ wa[e].pc \in {"forwarded", "nomedia"}
    /\ now - recs[e].timestamp = messageTimeout

\* the step is a run of the sweeper that deletes the record of event e, which
\* was forwarded and whose expiry timer is pending
SweeperDeletes(e) ==
  /\ MapGet(activeMessages, recs[e].key) = e
  /\ expiry[e].pc = "armed"
  /\ ~MapHas(activeMessages', recs[e].key)
  /\ expiry' = expiry
  /\ wa' = wa

\* C36: for every configured messageTimeout the sweeper never deletes a record
\* that is still within its window (now - timestamp <= messageTimeout).
C36_SweeperSparesWindow ==
  [][\A e \in AEvents :
       SweeperDeletes(e) => now - recs[e].timestamp > CONFIG.messageTimeout]_vars

\* the attachments of replies that have a scratch file now, as <<reply, place,
\* path>>: immediate, the attachment a handler is sending; batch, the
\* attachments of the stored entries whose file is on the disk
ScratchFiles ==
  IF Batch(variant)
    THEN {<<recs[r].responses[i].reply, j, EntryPath(r, i, j)>> :
            <<r, i, j>> \in {x \in AEvents \X (1..MaxB) \X (1..MaxAtt) :
                               /\ recs[x[1]].made
                               /\ x[2] <= Len(recs[x[1]].responses)
                               /\ x[3] <= Len(recs[x[1]].responses[x[2]].atts)
                               /\ EntryPath(x[1], x[2], x[3]) \in uploads}}
    ELSE {<<m, dc[m].k, ScratchPath(dc[m])>> :
            m \in {d \in BEvents : dc[d].pc = "sendAtt"}}

\* C37: two reply attachments whose scratch files exist at the same time never
\* share a scratch path.
C37_ScratchPathsDistinct ==
  \A f, g \in ScratchFiles : f[3] = g[3] => f = g

\* the record of event e is stored in activeMessages under its id
IsStored(e) == recs[e].made /\ MapGet(activeMessages, recs[e].key) = e

\* C38: every record inserted into activeMessages is eventually removed from
\* it (rollback, expiry action or sweeper), timers firing eventually.
C38_EveryRecordRemoved ==
  \A e \in AEvents : IsStored(e) ~> ~IsStored(e)

\* C38 witness: a record that never got an expiry timer and a record whose
\* expiry callback ran are both out of activeMessages
C38_Witness ==
  \E e, d \in AEvents :
    /\ recs[e].made /\ wa[e].pc = "nochannel" /\ ~IsStored(e)
    /\ recs[d].made /\ expiry[d].pc = "done" /\ ~IsStored(d)
    /\ recs[d].key # recs[e].key

\* C39: at any time at most one platform-A client instance with a registered
\* message listener is live, under every sequence of disconnect,
\* initialization failure, retry timer and uncaught-exception restart.
C39_OneLiveClient == clients <= 1

=============================================================================
